---- MODULE Spec2Model ----
(***************************************************************************)
(* nap: a logical database over one master and several slave sql.DB        *)
(* handles.  The model covers                                              *)
(*   - the replica selector DB.slave and its uint64 counter (db.go),       *)
(*   - the facade's routing of writes and reads (db.go, README.md),        *)
(*   - the fan-out of Close / Ping / Prepare over every physical db, in    *)
(*     the channel form of db.go and in the scatter form of the later      *)
(*     revision (unnamed/part_000, stmt.go), whose scatter function is     *)
(*     not among the sources and is modelled from its specification,       *)
(*   - Open and its split of the data source names (db.go),                *)
(*   - the aggregate statement's Exec, Query and QueryRow with the         *)
(*     trailing OnlyMaster argument (stmt.go),                             *)
(*   - panicking actions under the fan-out, and the pool setters.          *)
(***************************************************************************)
EXTENDS Integers, Sequences, FiniteSets, TLC

(***************************************************************************)
(* Bounds of the model.                                                    *)
(***************************************************************************)
\* Largest number of physical dbs of a logical DB in the routing model.
MaxConns == 5
\* Largest number of selector calls recorded in one behaviour.
MaxCalls == 7
\* Number of concurrent callers of the selector.
MaxCallers == 3
\* Largest n of one fan-out call.
MaxFan == 3
\* Longest dataSourceNames string handed to Open, in characters.
MaxDsnLen == 4
\* Most arguments handed to a statement's Query or QueryRow.
MaxArgs == 2
\* Largest number of selector calls next to a prepared statement.
MaxStmtCalls == 3
\* Largest number of inputs TestSlave's quick.Check tries.
MaxTestCalls == 4
\* Largest number of physical dbs under the fair scheduling of goroutines.
MaxChan == 2
\* Largest number of selector calls on a DB whose fan-out operations are
\* called as well.
MaxMixed == 1
\* Largest number of goroutines, ended or not, of the returned calls that
\* still have a goroutine running when the caller makes its next fan-out call.
MaxLeft == 2

(***************************************************************************)
(* uint64 arithmetic.  db.count is a uint64; the model checker's integers  *)
(* are 32 bits wide, so a counter value is held as four 16-bit limbs, the  *)
(* least significant first, and every operation is exact modulo 2^64.      *)
(***************************************************************************)
LimbBase == 65536

Zero64 == <<0, 0, 0, 0>>
Max64 == <<LimbBase - 1, LimbBase - 1, LimbBase - 1, LimbBase - 1>>

\* c + 1 modulo 2^64: the carry runs up the limbs and falls off the top.
Inc64(c) ==
    IF c[1] < LimbBase - 1 THEN [c EXCEPT ![1] = @ + 1]
    ELSE IF c[2] < LimbBase - 1 THEN [c EXCEPT ![1] = 0, ![2] = @ + 1]
    ELSE IF c[3] < LimbBase - 1 THEN [c EXCEPT ![1] = 0, ![2] = 0, ![3] = @ + 1]
    ELSE IF c[4] < LimbBase - 1
         THEN [c EXCEPT ![1] = 0, ![2] = 0, ![3] = 0, ![4] = @ + 1]
    ELSE Zero64

\* c + k modulo 2^64, for a small k >= 0.
RECURSIVE Add64(_, _)
Add64(c, k) == IF k = 0 THEN c ELSE Add64(Inc64(c), k - 1)

\* c % k for 0 < k < 2^15, by Horner's rule over the limbs.
Mod64(c, k) ==
    LET h4 == c[4] % k
        h3 == (h4 * LimbBase + c[3]) % k
        h2 == (h3 * LimbBase + c[2]) % k
    IN  (h2 * LimbBase + c[1]) % k

(***************************************************************************)
(* The replica selector.                                                   *)
(***************************************************************************)
\* A lost update: the counter is read and the index computed, but the
\* incremented value is not stored.
slaveNoStore(c, n) ==
    IF n <= 1 THEN [ret |-> 0, count |-> c, seen |-> c]
    ELSE [ret |-> 1 + Mod64(Inc64(c), n - 1), count |-> c, seen |-> Inc64(c)]

\* The modulus taken over all n dbs instead of the n-1 slaves.
slaveModN(c, n) ==
    IF n <= 1 THEN [ret |-> 0, count |-> c, seen |-> c]
    ELSE [ret |-> 1 + Mod64(Inc64(c), n), count |-> Inc64(c), seen |-> Inc64(c)]

\* The n <= 1 test dropped down to n <= 0: one db is treated as a slave set.
slaveNoGuard(c, n) ==
    IF n <= 0 THEN [ret |-> 0, count |-> c, seen |-> c]
    ELSE [ret |-> 1 + (IF n = 1 THEN 0 ELSE Mod64(Inc64(c), n - 1)),
          count |-> Inc64(c), seen |-> Inc64(c)]

\* db.slave(n) on a counter c: the index returned, the counter afterwards and
\* the counter value atomic.AddUint64 handed back (c itself when n <= 1, where
\* the counter is not touched).  For n > 1 the conversions uint64(n-1) and
\* int(1 + x % uint64(n-1)) are exact: 1 <= n-1 and the result is below n.
slave(c, n) ==
    IF n <= 1 THEN [ret |-> 0, count |-> c, seen |-> c]
    ELSE [ret |-> 1 + Mod64(Inc64(c), n - 1), count |-> Inc64(c), seen |-> Inc64(c)]

\* Arguments handed to slave: every length a connection list can have here,
\* and the non-positive ints TestSlave's generator also produces.
SlaveArgs == (-1)..MaxConns

\* Counter values a behaviour starts from: zero (a fresh DB), the value whose
\* increment carries out of the lowest limb, and values that many calls have
\* brought to just below the wrap at 2^64.
StartCounts ==
    { Zero64,
      <<LimbBase - 2, 0, 0, 0>>,
      <<LimbBase - 4, LimbBase - 1, LimbBase - 1, LimbBase - 1>>,
      <<LimbBase - 3, LimbBase - 1, LimbBase - 1, LimbBase - 1>> }

VARIABLES
    pdbs,       \* DB.pdbs: index -> state of the physical db ("open" / "closed")
    count,      \* DB.count
    count0,     \* the counter's value when the behaviour started
    hist,       \* selector calls so far, in the order of their atomic adds
    last,       \* the operation called last and the calls it issued itself
    stmts,      \* Prepare's slice of statement handles ("nil" / "open" / "closed")
    stmt,       \* the aggregate statement Prepare returned ("nil" when none)
    stmtOn,     \* index of the physical db each handle of stmts was prepared on
    dsn,        \* Open's dataSourceNames, a sequence of characters
    ident,      \* the connection string each physical db was opened with
    openPc,     \* Open: "unopened" / "opening" / "opened" / "failed"
    openI,      \* ... index of its loop
    openRet,    \* ... the error it returned
    pc,         \* concurrent selector callers: position of each
    arg,        \* ... the n it passed
    got,        \* ... what slave computed for it
    fanOp,      \* fan-out: the operation in progress ("none" when idle)
    fanN,       \* ... its branch count
    callerPc,   \* ... position of the calling goroutine
    loopI,      \* ... index of the caller's spawn / receive loop
    errors,     \* ... the buffered result channel
    worker,     \* ... position of each branch's goroutine
    outcome,    \* ... what each branch's action returned
    invoked,    \* ... how many times each branch's action was invoked
    fanRet,     \* ... what the call returned
    seq,        \* TestScatter's slice
    left,       \* the calls that returned while goroutines of theirs were running
    queryRowDB  \* the function installed to choose QueryRow's db ("nil" when none)

selVars == <<pc, arg, got>>
fanVars == <<fanOp, fanN, callerPc, loopI, errors, worker, outcome, invoked, fanRet, seq,
            left>>
dbVars == <<pdbs, count, count0, hist, last>>
stmtVars == <<stmts, stmt, stmtOn>>
openVars == <<dsn, ident, openPc, openI, openRet>>
vars == <<pdbs, count, count0, hist, last, stmts, stmt, stmtOn,
          dsn, ident, openPc, openI, openRet, pc, arg, got,
          fanOp, fanN, callerPc, loopI, errors, worker, outcome, invoked, fanRet, seq,
          left, queryRowDB>>

Len0(f) == Cardinality(DOMAIN f)
NoOp == [op |-> "none", hits |-> <<>>, sel |-> 0, idx |-> -1, err |-> "nil"]

\* Results of a branch: nil, the collaborator's "sql: database is closed", or
\* the error branch i's action produced; NoResult before there is one.
Nil == [kind |-> "nil", at |-> -1]
ErrClosed == [kind |-> "closed", at |-> -1]
Err(i) == [kind |-> "err", at |-> i]
NoResult == [kind |-> "none", at |-> -1]

(***************************************************************************)
(* Open: the data source names are split at ";" and one physical db is     *)
(* opened per piece, in order; the first failing sql.Open ends the call.   *)
(***************************************************************************)
\* The characters of a data source name: two letters and the separator.
DsnChars == {"a", "b", ";"}
\* Every dataSourceNames string of at most MaxDsnLen characters.
Dsns == UNION {[1..m -> DsnChars] : m \in 0..MaxDsnLen}

\* strings.Split(s, ";"): the pieces between the separators, in order, the
\* empty ones included; a string without separator is its own single piece.
RECURSIVE SplitAcc(_, _, _)
SplitAcc(s, cur, acc) ==
    IF s = <<>> THEN Append(acc, cur)
    ELSE IF Head(s) = ";" THEN SplitAcc(Tail(s), <<>>, Append(acc, cur))
    ELSE SplitAcc(Tail(s), Append(cur, Head(s)), acc)
\* The empty pieces dropped, as strings.FieldsFunc would.
SplitNonEmpty(s) == SelectSeq(SplitAcc(s, <<>>, <<>>), LAMBDA x : x # <<>>)
Split(s) == SplitAcc(s, <<>>, <<>>)

\* One-letter connection strings, all different.
ConnNames == <<"a", "b", "c", "d", "e", "f", "g", "h">>
\* The dataSourceNames "a;b;c;..." of k >= 1 one-letter connection strings.
RECURSIVE JoinNames(_)
JoinNames(k) ==
    IF k = 1 THEN <<ConnNames[1]>> ELSE JoinNames(k - 1) \o <<";", ConnNames[k]>>

\* Open has not been called: there is no DB yet.
Unopened ==
    /\ pdbs = <<>>
    /\ ident = <<>>
    /\ count = Zero64
    /\ count0 = Zero64
    /\ openPc = "unopened"
    /\ openI = 0
    /\ openRet = NoResult

\* The state Open left behind when it returned a DB of N physical dbs made
\* from "a;b;...", or N = 0 for the DB literal the scatter test's n = 0 needs.
OpenedFrom(N) ==
    /\ dsn = IF N = 0 THEN <<>> ELSE JoinNames(N)
    /\ ident = [i \in 0..(N - 1) |-> <<ConnNames[i + 1]>>]
    /\ openPc = IF N = 0 THEN "literal" ELSE "opened"
    /\ openI = N
    /\ openRet = IF N = 0 THEN NoResult ELSE Nil

\* The error check dropped from the loop: a failed sql.Open leaves its slot
\* nil and the loop goes on to the next connection string.
OpenStepIgnoreErr ==
    /\ openPc = "opening"
    /\ openI < Len(Split(dsn))
    /\ \/ /\ pdbs' = [pdbs EXCEPT ![openI] = "open"]
          /\ ident' = [ident EXCEPT ![openI] = Split(dsn)[openI + 1]]
       \/ UNCHANGED <<pdbs, ident>>
    /\ openI' = openI + 1
    /\ UNCHANGED <<dsn, openPc, openRet, count, count0>>

\* conns := strings.Split(dataSourceNames, ";") and the DB with one nil slot
\* per piece and a zero counter.
OpenStart ==
    /\ openPc = "unopened"
    /\ pdbs' = [i \in 0..(Len(Split(dsn)) - 1) |-> "nil"]
    /\ ident' = [i \in 0..(Len(Split(dsn)) - 1) |-> <<>>]
    /\ count' = Zero64
    /\ openPc' = "opening"
    /\ openI' = 0
    /\ UNCHANGED <<dsn, openRet, count0>>

\* One pass of the loop: db.pdbs[i], err = sql.Open(driverName, conns[i]).  A
\* success fills slot i; a failure returns (nil, err) at once, with the dbs
\* opened by the earlier passes left as they are.
OpenStep ==
    /\ openPc = "opening"
    /\ openI < Len(Split(dsn))
    /\ \/ /\ pdbs' = [pdbs EXCEPT ![openI] = "open"]
          /\ ident' = [ident EXCEPT ![openI] = Split(dsn)[openI + 1]]
          /\ openI' = openI + 1
          /\ UNCHANGED <<openPc, openRet>>
       \/ /\ openRet' = Err(openI)
          /\ openPc' = "failed"
          /\ UNCHANGED <<pdbs, ident, openI>>
    /\ UNCHANGED <<dsn, count, count0>>

\* return db, nil after the last pass.
OpenDone ==
    /\ openPc = "opening"
    /\ openI = Len(Split(dsn))
    /\ openPc' = "opened"
    /\ openRet' = Nil
    /\ UNCHANGED <<dsn, pdbs, ident, openI, count, count0>>

(***************************************************************************)
(* The facade: one operation at a time (sequential use).                   *)
(***************************************************************************)
\* The calls one operation issued: exactly one, on the physical db at index i.
Issue(i) == [j \in DOMAIN pdbs |-> IF j = i THEN 1 ELSE 0]
\* No call issued on any physical db.
NoIssue == [j \in DOMAIN pdbs |-> 0]

\* What a call on one physical db or handle hands back: nil or an error; the
\* QueryRow operations hand back a *sql.Row, Driver a driver.Driver, and no
\* error.
RowOps == {"QueryRow", "QueryRowContext", "StmtQueryRow"}
Outcomes(op) == IF op \in RowOps \cup {"Driver"} THEN {"nil"} ELSE {"nil", "err"}

\* db.pdbs[0].<op>(...): the call goes to the master and its result, error or
\* not, is handed back as it is.
OnMaster(op) ==
    /\ Len0(pdbs) >= 1
    /\ \E e \in Outcomes(op) :
         last' = [op |-> op, hits |-> Issue(0), sel |-> 0, idx |-> 0, err |-> e]
    /\ UNCHANGED <<pdbs, count, count0, hist>>

\* db.pdbs[db.slave(len(db.pdbs))].<op>(...): one selector call, then the call
\* on the db at the index it returned.
OnSlave(op) ==
    /\ Len0(pdbs) >= 1
    /\ Len(hist) < MaxCalls
    /\ LET r == slave(count, Len0(pdbs)) IN
         /\ count' = r.count
         /\ hist' = Append(hist, [n |-> Len0(pdbs), idx |-> r.ret, c |-> r.seen])
         /\ \E e \in Outcomes(op) :
              last' = [op |-> op, hits |-> Issue(r.ret), sel |-> 1,
                       idx |-> r.ret, err |-> e]
    /\ UNCHANGED <<pdbs, count0>>

\* A write sent through the selector, as a read is.
ExecOnSlave == OnSlave("Exec")
\* A read sent to the master without asking the selector.
QueryOnMaster == OnMaster("Query")
Begin == OnMaster("Begin")
Exec == OnMaster("Exec")
Driver == OnMaster("Driver")
Query == OnSlave("Query")

\* db.SetQueryRowDB(f): f is kept to choose the db of every later QueryRow.
\* The function TestQueryRow installs answers db.Master() for a query that
\* starts with "insert into " and db.Slave() for any other.
SetQueryRowDB ==
    /\ queryRowDB' = "set"
    /\ last' = [op |-> "SetQueryRowDB", hits |-> NoIssue, sel |-> 0, idx |-> -1,
                err |-> "nil"]
    /\ UNCHANGED <<pdbs, count, count0, hist>>

\* Without an installed function, db.pdbs[db.slave(len(db.pdbs))].QueryRow;
\* with TestQueryRow's, the query's text decides between the master and the
\* selector's db.
QueryRow ==
    IF queryRowDB = "nil" THEN OnSlave("QueryRow")
    ELSE OnMaster("QueryRow") \/ OnSlave("QueryRow")

\* The README's revision of the facade: the same routing, written through the
\* Master() and Slave() accessors, with the context variants.
BeginTx == OnMaster("BeginTx")
ExecContext == OnMaster("ExecContext")
QueryContext == OnSlave("QueryContext")
QueryRowContext == OnSlave("QueryRowContext")

\* db.Slave(): the db at the selector's index is handed out; no call is issued.
Slave ==
    /\ Len0(pdbs) >= 1
    /\ Len(hist) < MaxCalls
    /\ LET r == slave(count, Len0(pdbs)) IN
         /\ count' = r.count
         /\ hist' = Append(hist, [n |-> Len0(pdbs), idx |-> r.ret, c |-> r.seen])
         /\ last' = [op |-> "Slave", hits |-> NoIssue, sel |-> 1,
                     idx |-> r.ret, err |-> "nil"]
    /\ UNCHANGED <<pdbs, count0>>

\* for i := range db.pdbs { db.pdbs[i].<setter>(n) }: one call on every
\* physical db, in order; the setters return nothing.
OnAll(op) ==
    /\ last' = [op |-> op, hits |-> [j \in DOMAIN pdbs |-> 1], sel |-> 0,
                idx |-> -1, err |-> "nil"]
    /\ UNCHANGED <<pdbs, count, count0, hist>>

SetMaxIdleConns == OnAll("SetMaxIdleConns")
SetMaxOpenConns == OnAll("SetMaxOpenConns")
SetConnMaxLifetime == OnAll("SetConnMaxLifetime")
SetterOps == {"SetMaxIdleConns", "SetMaxOpenConns", "SetConnMaxLifetime"}

\* The master accessor written as a selector call whose index is thrown away.
MasterCounting ==
    /\ Len0(pdbs) >= 1
    /\ count' = slave(count, Len0(pdbs)).count
    /\ last' = [op |-> "Master", hits |-> NoIssue, sel |-> 0, idx |-> 0, err |-> "nil"]
    /\ UNCHANGED <<pdbs, count0, hist>>

\* db.Master(): db.pdbs[0] is handed out; no call is issued.
Master ==
    /\ Len0(pdbs) >= 1
    /\ last' = [op |-> "Master", hits |-> NoIssue, sel |-> 0, idx |-> 0, err |-> "nil"]
    /\ UNCHANGED <<pdbs, count, count0, hist>>

(***************************************************************************)
(* The aggregate statement's Exec, Query and QueryRow (stmt.go).           *)
(***************************************************************************)
\* Argument values: an ordinary value and the two values of the OnlyMaster
\* type.
ArgVals == {"v", "OnlyMaster(true)", "OnlyMaster(false)"}
\* Every argument list of at most MaxArgs arguments.
ArgLists == UNION {[1..m -> ArgVals] : m \in 0..MaxArgs}

\* m, ok := args[len(args)-1].(OnlyMaster); ok && m == true, for a non-empty
\* argument list.
LastIsOnlyMaster(args) == Len(args) > 0 /\ args[Len(args)] = "OnlyMaster(true)"

\* s.stmts[0].<op>(args...): the call goes to the master's handle; given is
\* the caller's argument list, args the one handed down.
StmtOnMaster(op, given, args) ==
    /\ stmt = "stmt"
    /\ \E e \in Outcomes(op) :
         last' = [op |-> op, hits |-> Issue(0), sel |-> 0, idx |-> 0, err |-> e,
                  given |-> given, args |-> args]
    /\ UNCHANGED <<pdbs, count, count0, hist>>

\* s.stmts[s.db.slave(len(s.db.pdbs))].<op>(args...): one selector call on the
\* owning DB's counter, then the call on the handle at the index it returned.
StmtOnSlave(op, given, args) ==
    /\ stmt = "stmt"
    /\ Len(hist) < MaxCalls
    /\ LET r == slave(count, Len0(pdbs)) IN
         /\ count' = r.count
         /\ hist' = Append(hist, [n |-> Len0(pdbs), idx |-> r.ret, c |-> r.seen])
         /\ \E e \in Outcomes(op) :
              last' = [op |-> op, hits |-> Issue(r.ret), sel |-> 1, idx |-> r.ret,
                       err |-> e, given |-> given, args |-> args]
    /\ UNCHANGED <<pdbs, count0>>

\* The body shared by Query and QueryRow: no arguments, a trailing
\* OnlyMaster(true) (stripped, master's handle), or anything else.
StmtRead(op, given) ==
    IF Len(given) = 0 THEN StmtOnSlave(op, given, given)
    ELSE IF LastIsOnlyMaster(given)
         THEN StmtOnMaster(op, given, SubSeq(given, 1, Len(given) - 1))
         ELSE StmtOnSlave(op, given, given)

\* The statement's query sent to the master's handle whatever its arguments.
StmtQueryOnMaster == \E a \in ArgLists : StmtOnMaster("StmtQuery", a, a)
\* The marker sends the query to the master's handle but stays in the
\* argument list.
StmtQueryRowKeepMarker ==
    \E a \in ArgLists :
        IF LastIsOnlyMaster(a) THEN StmtOnMaster("StmtQueryRow", a, a)
        ELSE StmtOnSlave("StmtQueryRow", a, a)

StmtExec == \E a \in ArgLists : StmtOnMaster("StmtExec", a, a)
StmtQuery == \E a \in ArgLists : StmtRead("StmtQuery", a)
StmtQueryRow == \E a \in ArgLists : StmtRead("StmtQueryRow", a)

StmtReadOps == {"StmtQuery", "StmtQueryRow"}

WriteOps == {"Exec", "ExecContext", "Begin", "BeginTx"}
ReadOps == {"Query", "QueryRow", "QueryContext", "QueryRowContext"}

\* A returned call whose goroutines are still running: its operation, the
\* capacity of its channel and the number of results the channel holds, the
\* position of each goroutine, and whether Prepare's slice of handles is
\* still the latest one made.  NoCall marks a free place.
\* A call that returns with a goroutine running has started two or more.
Slots == 1..(MaxLeft \div 2)
NoCall == [op |-> "none", n |-> 0, held |-> 0, worker |-> <<>>, cur |-> FALSE]

FanIdle ==
    /\ fanOp = "none" /\ fanN = 0 /\ callerPc = "idle" /\ loopI = 0
    /\ errors = <<>> /\ worker = <<>> /\ outcome = <<>> /\ invoked = <<>>
    /\ fanRet = NoResult /\ seq = <<>>
    /\ left = [k \in Slots |-> NoCall]

SelIdle ==
    /\ pc = [p \in 1..MaxCallers |-> "idle"]
    /\ arg = [p \in 1..MaxCallers |-> 0]
    /\ got = [p \in 1..MaxCallers |-> slave(Zero64, 0)]

\* There is no aggregate statement / there is the one a Prepare returned.
NoStmt ==
    /\ stmts = [i \in DOMAIN pdbs |-> "nil"]
    /\ stmt = "nil"
    /\ stmtOn = [i \in DOMAIN pdbs |-> -1]
Prepared ==
    /\ stmts = [i \in DOMAIN pdbs |-> "open"]
    /\ stmt = "stmt"
    /\ stmtOn = [i \in DOMAIN pdbs |-> i]

\* A logical DB with N >= 1 open physical dbs, as Open leaves it, whose counter
\* earlier calls may have advanced.
InitRoute ==
    /\ \E N \in 1..MaxConns : pdbs = [i \in 0..(N - 1) |-> "open"]
    /\ count \in StartCounts
    /\ count0 = count
    /\ hist = <<>>
    /\ last = NoOp
    /\ OpenedFrom(Len0(pdbs))
    /\ NoStmt
    /\ SelIdle
    /\ FanIdle
    /\ queryRowDB = "nil"

NextRoute ==
    \/ (Begin /\ UNCHANGED <<selVars, fanVars, stmtVars, openVars, queryRowDB>>)
    \/ (Exec /\ UNCHANGED <<selVars, fanVars, stmtVars, openVars, queryRowDB>>)
    \/ (Driver /\ UNCHANGED <<selVars, fanVars, stmtVars, openVars, queryRowDB>>)
    \/ (Query /\ UNCHANGED <<selVars, fanVars, stmtVars, openVars, queryRowDB>>)
    \/ (QueryRow /\ UNCHANGED <<selVars, fanVars, stmtVars, openVars, queryRowDB>>)
    \/ (BeginTx /\ UNCHANGED <<selVars, fanVars, stmtVars, openVars, queryRowDB>>)
    \/ (ExecContext /\ UNCHANGED <<selVars, fanVars, stmtVars, openVars, queryRowDB>>)
    \/ (QueryContext /\ UNCHANGED <<selVars, fanVars, stmtVars, openVars, queryRowDB>>)
    \/ (QueryRowContext /\ UNCHANGED <<selVars, fanVars, stmtVars, openVars, queryRowDB>>)
    \/ (Slave /\ UNCHANGED <<selVars, fanVars, stmtVars, openVars, queryRowDB>>)
    \/ (Master /\ UNCHANGED <<selVars, fanVars, stmtVars, openVars, queryRowDB>>)

SpecRoute == InitRoute /\ [][NextRoute]_vars

(***************************************************************************)
(* TestSlave: quick.Check calls db.slave(n) on one DB literal with one     *)
(* generated n after the other and stops at the first input its property   *)
(* function rejects.  The test's variable last, -1 at first, is kept in     *)
(* last.idx; last.err tells whether the function accepted the input.       *)
(***************************************************************************)
quickCheck ==
    /\ Len(hist) < MaxTestCalls
    /\ last.err = "nil"
    /\ \E n \in SlaveArgs :
         LET r == slave(count, n)
             result == IF n <= 1 THEN r.ret = 0
                       ELSE r.ret > 0 /\ r.ret < n /\ r.ret # last.idx
         IN  /\ count' = r.count
             /\ hist' = Append(hist, [n |-> n, idx |-> r.ret, c |-> r.seen])
             /\ last' = [op |-> "TestSlave", hits |-> NoIssue, sel |-> 1,
                         idx |-> IF n <= 1 THEN last.idx ELSE r.ret,
                         err |-> IF result THEN "nil" ELSE "err"]
    /\ UNCHANGED <<pdbs, count0>>

\* db := &DB{} and last := -1; the counter may stand where earlier calls have
\* brought it.
InitTest ==
    /\ pdbs = <<>>
    /\ count \in StartCounts
    /\ count0 = count
    /\ hist = <<>>
    /\ last = NoOp
    /\ OpenedFrom(0)
    /\ NoStmt
    /\ SelIdle
    /\ FanIdle
    /\ queryRowDB = "nil"

NextTest == quickCheck /\ UNCHANGED <<selVars, fanVars, stmtVars, openVars, queryRowDB>>

SpecTest == InitTest /\ [][NextTest]_vars

(***************************************************************************)
(* A prepared statement in sequential use, next to the facade's own reads  *)
(* and writes on the DB that owns it.                                      *)
(***************************************************************************)
\* A DB of N >= 1 open dbs and the statement a Prepare on it returned.
InitStmt ==
    /\ \E N \in 1..MaxFan : pdbs = [i \in 0..(N - 1) |-> "open"]
    /\ count \in StartCounts
    /\ count0 = count
    /\ hist = <<>>
    /\ last = NoOp
    /\ OpenedFrom(Len0(pdbs))
    /\ Prepared
    /\ SelIdle
    /\ FanIdle
    /\ queryRowDB = "nil"

NextStmt ==
    \/ (StmtExec /\ Len(hist) < MaxStmtCalls
          /\ UNCHANGED <<selVars, fanVars, stmtVars, openVars, queryRowDB>>)
    \/ (StmtQuery /\ Len(hist) < MaxStmtCalls
          /\ UNCHANGED <<selVars, fanVars, stmtVars, openVars, queryRowDB>>)
    \/ (StmtQueryRow /\ Len(hist) < MaxStmtCalls
          /\ UNCHANGED <<selVars, fanVars, stmtVars, openVars, queryRowDB>>)
    \/ (Query /\ Len(hist) < MaxStmtCalls
          /\ UNCHANGED <<selVars, fanVars, stmtVars, openVars, queryRowDB>>)
    \/ (Exec /\ Len(hist) < MaxStmtCalls
          /\ UNCHANGED <<selVars, fanVars, stmtVars, openVars, queryRowDB>>)

SpecStmt == InitStmt /\ [][NextStmt]_vars

(***************************************************************************)
(* The selector under concurrent callers of one DB: each caller runs       *)
(* db.slave(len(db.pdbs)) once; the atomic add is one step, handing the    *)
(* index back to the caller another.                                       *)
(***************************************************************************)
Callers == 1..MaxCallers

\* The add split into a load and a later store of the loaded value plus one.
slaveStepRacy(p) ==
    \/ /\ pc[p] = "idle"
       /\ pc' = [pc EXCEPT ![p] = "loaded"]
       /\ arg' = [arg EXCEPT ![p] = Len0(pdbs)]
       /\ got' = [got EXCEPT ![p] = slave(count, Len0(pdbs))]
       /\ UNCHANGED <<pdbs, count, count0, hist, last>>
    \/ /\ pc[p] = "loaded"
       /\ pc' = [pc EXCEPT ![p] = "added"]
       /\ count' = got[p].count
       /\ hist' = Append(hist, [n |-> arg[p], idx |-> got[p].ret, c |-> got[p].seen])
       /\ UNCHANGED <<pdbs, count0, last, arg, got>>

\* The n <= 1 test and, past it, atomic.AddUint64(&db.count, 1): one step.
slaveStep(p) ==
    /\ pc[p] = "idle"
    /\ LET r == slave(count, Len0(pdbs)) IN
         /\ count' = r.count
         /\ got' = [got EXCEPT ![p] = r]
         /\ hist' = Append(hist, [n |-> Len0(pdbs), idx |-> r.ret, c |-> r.seen])
    /\ arg' = [arg EXCEPT ![p] = Len0(pdbs)]
    /\ pc' = [pc EXCEPT ![p] = "added"]
    /\ UNCHANGED <<pdbs, count0, last>>

\* The index computed from the value the add handed back is returned.
slaveReturn(p) ==
    /\ pc[p] = "added"
    /\ pc' = [pc EXCEPT ![p] = "done"]
    /\ UNCHANGED <<pdbs, count, count0, hist, last, arg, got>>

InitSel == InitRoute

NextSel ==
    \/ \E p \in Callers : slaveStep(p) /\ UNCHANGED <<fanVars, stmtVars, openVars, queryRowDB>>
    \/ \E p \in Callers : slaveReturn(p) /\ UNCHANGED <<fanVars, stmtVars, openVars, queryRowDB>>

SpecSel == InitSel /\ [][NextSel]_vars

(***************************************************************************)
(* Claims about the selector and the routing.                              *)
(***************************************************************************)
\* Callers whose selector call has passed its add.
Added == {p \in Callers : pc[p] \in {"added", "done"}}
\* The counter wrapped to 0 at call j of the history.
WrapsAt(j) == hist[j].n > 1 /\ hist[j].c = Zero64
\* m divides 2^64 - 1 / m divides 2^64.
DividesMax64(m) == Mod64(Max64, m) = 0
Divides2p64(m) == Mod64(Max64, m) = m - 1

\* C4: with n > 1 every selector call returns an index in [1, n-1], never the
\* master's 0 and never n or more, whatever the counter's value (the wrap to 0
\* included) and however concurrent callers interleave.
C4_IndexInRange ==
    /\ \A j \in 1..Len(hist) :
         hist[j].n > 1 => (hist[j].idx >= 1 /\ hist[j].idx <= hist[j].n - 1)
    /\ \A p \in Added :
         arg[p] > 1 => (got[p].ret >= 1 /\ got[p].ret <= arg[p] - 1)

\* Every caller has its index, there are slaves, and the counter wrapped on
\* the way.
C4_Witness ==
    /\ \A p \in Callers : pc[p] = "done"
    /\ Len0(pdbs) > 2
    /\ \E j \in 1..Len(hist) : WrapsAt(j)
    /\ \E j \in 1..Len(hist) : hist[j].c = Max64

\* C5 as stated: for a fixed n > 2 two consecutive serialized selector calls
\* never return the same index, whatever the counter's value.
C5_ConsecutiveDiffer ==
    \A j \in 1..(Len(hist) - 1) :
        hist[j].n > 2 => hist[j].idx # hist[j + 1].idx

\* C5 amended: two consecutive serialized calls with n > 2 return different
\* indices unless the second call's add wraps the counter to 0 and n-1 divides
\* 2^64 - 1; in that one case both return index 1.
C5_DifferUnlessWrap ==
    \A j \in 1..(Len(hist) - 1) :
        hist[j].n > 2 =>
            IF WrapsAt(j + 1) /\ DividesMax64(hist[j].n - 1)
            THEN hist[j].idx = 1 /\ hist[j + 1].idx = 1
            ELSE hist[j].idx # hist[j + 1].idx

\* Two consecutive calls across the wrap that do differ (n-1 does not divide
\* 2^64 - 1), followed by one more call.
C5_Witness ==
    /\ Len0(pdbs) > 2
    /\ \E j \in 1..(Len(hist) - 2) :
         /\ WrapsAt(j + 1)
         /\ hist[j].idx # hist[j + 1].idx
         /\ hist[j + 1].idx # hist[j + 2].idx

\* The indices of calls a..b of the history are the slaves 1..k-1, each once.
VisitsEachOnce(a, b, k) ==
    /\ \A i \in a..b : hist[i].idx \in 1..(k - 1)
    /\ \A i1, i2 \in a..b : i1 # i2 => hist[i1].idx # hist[i2].idx
    /\ \A r \in 1..(k - 1) : \E i \in a..b : hist[i].idx = r

\* C6 as stated: with k > 1 dbs, every k-1 consecutive Slave calls return each
\* of 1..k-1 once, and the call k-1 places on returns the same index again.
C6_Cycle ==
    LET k == Len0(pdbs) IN
    k > 1 =>
      /\ \A a \in 1..(Len(hist) - k + 2) : VisitsEachOnce(a, a + k - 2, k)
      /\ \A a \in 1..(Len(hist) - k + 1) : hist[a + k - 1].idx = hist[a].idx

\* C6 amended: the same, for every run of calls within which the counter does
\* not wrap to 0, and for every run at all when k-1 divides 2^64.
C6_CycleUnlessWrap ==
    LET k == Len0(pdbs)
        NoWrap(a, b) == \A i \in (a + 1)..b : ~WrapsAt(i)
    IN
    k > 1 =>
      /\ \A a \in 1..(Len(hist) - k + 2) :
           (NoWrap(a, a + k - 2) \/ Divides2p64(k - 1))
               => VisitsEachOnce(a, a + k - 2, k)
      /\ \A a \in 1..(Len(hist) - k + 1) :
           (NoWrap(a, a + k - 1) \/ Divides2p64(k - 1))
               => hist[a + k - 1].idx = hist[a].idx

\* Four dbs, and more than one full round of the three slaves completed.
C6_Witness ==
    /\ Len0(pdbs) = 4
    /\ Len(hist) >= 5
    /\ count0 = Zero64
    /\ last.op = "Slave"

\* C7: the counter update is one atomic fetch-and-add: the calls that have
\* passed it (n > 1) observed pairwise distinct counter values, and the
\* counter stands exactly that many above its start, modulo 2^64.
C7_AtomicAdd ==
    /\ \A p, q \in Added :
         (p # q /\ arg[p] > 1 /\ arg[q] > 1) => got[p].seen # got[q].seen
    /\ \A i, j \in 1..Len(hist) :
         (i # j /\ hist[i].n > 1) => hist[i].c # hist[j].c
    /\ count = Add64(count0, Cardinality({p \in Added : arg[p] > 1}))

\* All callers have added, on a DB with slaves, across the wrap.
C7_Witness ==
    /\ Cardinality(Added) = MaxCallers
    /\ Len0(pdbs) > 1
    /\ \E p \in Callers : pc[p] = "added"
    /\ \E j \in 1..Len(hist) : WrapsAt(j)

\* C8: slave(n) returns 0 for every n <= 1 and leaves the counter alone, so on
\* a DB with a single physical db Slave, Query and QueryRow resolve to index
\* 0, the master's, after any number of earlier calls.
C8_SingleDb ==
    /\ \A n \in SlaveArgs :
         n <= 1 => (slave(count, n).ret = 0 /\ slave(count, n).count = count)
    /\ Len0(pdbs) = 1 =>
         /\ \A j \in 1..Len(hist) : hist[j].idx = 0
         /\ count = count0
         /\ last.op \in (ReadOps \cup {"Slave", "Master"}) => last.idx = 0
         /\ last.op \in ReadOps => last.hits = Issue(0)

\* A read on a single-db DB after several earlier selector calls.
C8_Witness ==
    /\ Len0(pdbs) = 1
    /\ Len(hist) >= 3
    /\ last.op = "QueryRow"
    /\ last.hits = Issue(0)

\* C9: Exec, ExecContext, Begin and BeginTx issue their one call on index 0
\* and on no other db, without asking the selector, for every n >= 1 and
\* every counter value, after any earlier operations; a failed write is not
\* issued again.
C9_WritesToMaster ==
    last.op \in WriteOps =>
        /\ last.hits = Issue(0)
        /\ last.idx = 0
        /\ last.sel = 0

\* A failed write on a DB with slaves, after reads have moved the counter.
C9_Witness ==
    /\ last.op = "Exec"
    /\ last.err = "err"
    /\ Len0(pdbs) > 2
    /\ Len(hist) >= 2
    /\ last.hits = Issue(0)

\* C10 as it was claimed: a read issues exactly one query, on the db at the
\* index one selector call returned; with n > 1 that db is a slave, never the
\* master; a failed read is handed back without a second attempt.
C10_ReadsToSlave ==
    last.op \in ReadOps =>
        /\ last.sel = 1
        /\ Len(hist) >= 1
        /\ last.idx = hist[Len(hist)].idx
        /\ last.hits = Issue(last.idx)
        /\ Len0(pdbs) > 1 => (last.idx >= 1 /\ last.idx <= Len0(pdbs) - 1)

\* C15: the statement's Exec issues its one call on the handle at index 0
\* without asking the selector; its Query and QueryRow, when the arguments do
\* not end in OnlyMaster(true), issue their one call on the handle at the
\* index one selector call of the owning DB returned - the call that the DB's
\* counter, shared with the facade's reads, has just counted - and with more
\* than one db that handle is a slave's.
C15_StmtRouting ==
    /\ last.op = "StmtExec" =>
          /\ last.sel = 0
          /\ last.idx = 0
          /\ last.hits = Issue(0)
    /\ (last.op \in StmtReadOps /\ ~LastIsOnlyMaster(last.given)) =>
          /\ last.sel = 1
          /\ Len(hist) >= 1
          /\ hist[Len(hist)].n = Len0(pdbs)
          /\ last.idx = hist[Len(hist)].idx
          /\ last.hits = Issue(last.idx)
          /\ last.idx \in DOMAIN stmts
          /\ Len0(pdbs) > 1 =>
                /\ last.idx >= 1 /\ last.idx <= Len0(pdbs) - 1
                /\ hist[Len(hist)].c = count
                /\ count = Add64(count0, Len(hist))

\* A statement query without marker after facade reads, on a DB with slaves:
\* it took the turn after theirs.
C15_Witness ==
    /\ last.op = "StmtQuery"
    /\ last.given = <<"v">>
    /\ Len0(pdbs) = 3
    /\ Len(hist) = 3
    /\ last.idx = hist[3].idx
    /\ hist[2].idx # hist[3].idx

\* C16: when the last argument of the statement's Query or QueryRow is
\* OnlyMaster(true), the query runs on the master's handle, without a selector
\* call, with the caller's arguments minus that last one; in any other case -
\* no arguments, another last argument, a marker that is not last - the
\* selector-chosen handle gets the arguments as the caller gave them.
C16_ForceMaster ==
    last.op \in StmtReadOps =>
        IF LastIsOnlyMaster(last.given)
        THEN /\ last.idx = 0
             /\ last.sel = 0
             /\ last.hits = Issue(0)
             /\ Len(last.args) = Len(last.given) - 1
             /\ \A j \in 1..Len(last.args) : last.args[j] = last.given[j]
        ELSE /\ last.sel = 1
             /\ last.idx = hist[Len(hist)].idx
             /\ last.hits = Issue(last.idx)
             /\ last.args = last.given

\* QueryRow with a marker in both positions: the last one is stripped, the
\* first one is handed down, and the master's handle runs the query.
C16_Witness ==
    /\ last.op = "StmtQueryRow"
    /\ last.given = <<"OnlyMaster(true)", "OnlyMaster(true)">>
    /\ last.args = <<"OnlyMaster(true)">>
    /\ last.idx = 0
    /\ Len0(pdbs) > 1

(***************************************************************************)
(* Fan-out.  db.go's Close, Ping and Prepare start one goroutine per        *)
(* physical db, each sending its result on a channel of capacity n, and    *)
(* then receive; stmt.Close and TestScatter go through scatter(n, fn), as  *)
(* do PingContext and PrepareContext.  A call of db.go that returns on the *)
(* first error leaves its other goroutines running: they go on next to     *)
(* whatever the caller does afterwards.                                    *)
(***************************************************************************)

ChanOps == {"Close", "Ping", "Prepare"}
ScatterOps == {"StmtClose", "TestScatter", "PrepareContext", "PingContext"}
PrepareOps == {"Prepare", "PrepareContext"}
PingOps == {"Ping", "PingContext"}

Branches == 0..(fanN - 1)
\* Every goroutine of the last fan-out call has ended.
Quiet == \A i \in DOMAIN worker : worker[i] = "done"

\* The call the caller leaves behind when it enters operation op.
Abandoned(op) ==
    [op |-> fanOp, n |-> fanN, held |-> Len(errors), worker |-> worker,
     cur |-> (fanOp = "Prepare" /\ op \notin PrepareOps)]
RECURSIVE BranchesOf(_, _)
\* The goroutines started by the calls in places 1..k.
BranchesOf(l, k) == IF k = 0 THEN 0 ELSE l[k].n + BranchesOf(l, k - 1)
FreeSlot == CHOOSE k \in Slots : left[k] = NoCall /\ \A j \in Slots : j < k => left[j] # NoCall
\* A Prepare makes a new slice: the slices of earlier calls are out of reach.
Outdated(l, op) ==
    [k \in Slots |-> IF op \in PrepareOps /\ l[k] # NoCall
                     THEN [l[k] EXCEPT !.cur = FALSE] ELSE l[k]]

\* The caller makes its next call, op: goroutines of the call before that
\* have not ended are left to themselves.
Leave(op) ==
    IF Quiet THEN left' = Outdated(left, op)
    ELSE /\ \E k \in Slots : left[k] = NoCall
         /\ fanN + BranchesOf(left, MaxLeft \div 2) <= MaxLeft
         /\ left' = Outdated([left EXCEPT ![FreeSlot] = Abandoned(op)], op)

\* The caller makes a call that is no fan-out: the fan-out call that
\* returned before is over, its result and its channel out of reach.
Over ==
    /\ callerPc \in {"idle", "returned"}
    /\ Leave("none")
    /\ fanOp' = "none"
    /\ fanN' = 0
    /\ callerPc' = "idle"
    /\ loopI' = 0
    /\ errors' = <<>>
    /\ worker' = <<>>
    /\ outcome' = <<>>
    /\ invoked' = <<>>
    /\ fanRet' = NoResult
    /\ seq' = seq

\* The caller enters a fan-out operation over n branches; for Prepare,
\* stmts := make([]*sql.Stmt, len(db.pdbs)).
Enter(op, n) ==
    /\ callerPc \in {"idle", "returned"}
    /\ Leave(op)
    /\ last' = [op |-> op, hits |-> NoIssue, sel |-> 0, idx |-> -1, err |-> "nil"]
    /\ fanOp' = op
    /\ fanN' = n
    /\ callerPc' = "spawn"
    /\ loopI' = 0
    /\ errors' = <<>>
    /\ worker' = [i \in 0..(n - 1) |-> "none"]
    /\ outcome' = [i \in 0..(n - 1) |-> NoResult]
    /\ invoked' = [i \in 0..(n - 1) |-> 0]
    /\ fanRet' = NoResult

Close ==
    /\ Enter("Close", Len0(pdbs))
    /\ UNCHANGED <<pdbs, count, count0, hist, stmtVars, seq>>

Ping ==
    /\ Enter("Ping", Len0(pdbs))
    /\ UNCHANGED <<pdbs, count, count0, hist, stmtVars, seq>>

Prepare ==
    /\ Enter("Prepare", Len0(pdbs))
    /\ stmts' = [i \in DOMAIN pdbs |-> "nil"]
    /\ stmt' = "nil"
    /\ stmtOn' = [i \in DOMAIN pdbs |-> -1]
    /\ UNCHANGED <<pdbs, count, count0, hist, seq>>

\* The README's PrepareContext: the same slice, filled through scatter.
PrepareContext ==
    /\ Enter("PrepareContext", Len0(pdbs))
    /\ stmts' = [i \in DOMAIN pdbs |-> "nil"]
    /\ stmt' = "nil"
    /\ stmtOn' = [i \in DOMAIN pdbs |-> -1]
    /\ UNCHANGED <<pdbs, count, count0, hist, seq>>

\* The README's PingContext: Ping through scatter.
PingContext ==
    /\ Enter("PingContext", Len0(pdbs))
    /\ UNCHANGED <<pdbs, count, count0, hist, stmtVars, seq>>

\* (*stmt).Close on the statement a Prepare returned.
StmtClose ==
    /\ stmt = "stmt"
    /\ Enter("StmtClose", Len0(stmts))
    /\ UNCHANGED <<pdbs, count, count0, hist, stmtVars, seq>>

\* TestScatter: seq := 1, 2, ..., n and scatter(len(seq), ...).
TestScatter ==
    /\ \E n \in 0..MaxFan :
         /\ Enter("TestScatter", n)
         /\ seq' = [i \in 0..(n - 1) |-> i + 1]
    /\ UNCHANGED <<pdbs, count, count0, hist, stmtVars>>

\* One turn of the loop that starts the goroutines: go func(i int) {...}(i).
fanSpawn ==
    /\ callerPc = "spawn"
    /\ loopI < fanN
    /\ worker' = [worker EXCEPT ![loopI] = "ready"]
    /\ loopI' = loopI + 1
    /\ UNCHANGED <<dbVars, stmtVars, fanOp, fanN, callerPc, errors, outcome,
                   invoked, fanRet, seq, left>>

\* The loop is over: the caller goes on to receive (or to scatter's join).
fanSpawned ==
    /\ callerPc = "spawn"
    /\ loopI = fanN
    /\ callerPc' = IF fanOp \in ChanOps THEN "recv" ELSE "join"
    /\ loopI' = 0
    /\ UNCHANGED <<dbVars, stmtVars, fanOp, fanN, errors, worker, outcome,
                   invoked, fanRet, seq, left>>

\* What branch i's action does and returns, by operation: the results the
\* collaborator can give, and the action's effect on the handles.
\*   Close:     db.pdbs[i].Close()       the db is closed whatever it returns
\*   Ping:      db.pdbs[i].Ping()        a closed db answers ErrClosed; the
\*              same for PingContext
\*   Prepare:   stmts[i], err = db.pdbs[i].Prepare(query), and the same for
\*              PrepareContext
\*   StmtClose: s.stmts[i].Close()
\*   TestScatter: square seq[i] if it is even, fail if it is odd
ResultsOf(op, i) ==
    CASE op = "Close" -> IF pdbs[i] = "closed" THEN {Nil} ELSE {Nil, Err(i)}
      [] op \in PingOps -> IF pdbs[i] = "closed" THEN {ErrClosed} ELSE {Nil, Err(i)}
      [] op \in PrepareOps -> IF pdbs[i] = "closed" THEN {ErrClosed} ELSE {Nil, Err(i)}
      [] op = "StmtClose" -> IF stmts[i] = "closed" THEN {Nil} ELSE {Nil, Err(i)}
      [] op = "TestScatter" -> IF seq[i] % 2 = 0 THEN {Nil} ELSE {Err(i)}
Results(i) == ResultsOf(fanOp, i)

\* The goroutine's closure uses the loop's variable instead of its own
\* parameter: run once the loop is over, it stores its handle in the last
\* slot.
EffectSharedIndex(i, e) ==
    /\ pdbs' = IF fanOp = "Close" THEN [pdbs EXCEPT ![i] = "closed"] ELSE pdbs
    /\ stmts' = CASE fanOp \in PrepareOps ->
                       [stmts EXCEPT ![fanN - 1] = IF e = Nil THEN "open" ELSE "nil"]
                  [] fanOp = "StmtClose" -> [stmts EXCEPT ![i] = "closed"]
                  [] OTHER -> stmts
    /\ stmtOn' = IF fanOp \in PrepareOps
                 THEN [stmtOn EXCEPT ![fanN - 1] = IF e = Nil THEN i ELSE -1]
                 ELSE stmtOn
    /\ seq' = IF fanOp = "TestScatter" /\ e = Nil
              THEN [seq EXCEPT ![i] = seq[i] * seq[i]] ELSE seq

Effect(i, e) ==
    /\ pdbs' = IF fanOp = "Close" THEN [pdbs EXCEPT ![i] = "closed"] ELSE pdbs
    /\ stmts' = CASE fanOp \in PrepareOps ->
                       [stmts EXCEPT ![i] = IF e = Nil THEN "open" ELSE "nil"]
                  [] fanOp = "StmtClose" -> [stmts EXCEPT ![i] = "closed"]
                  [] OTHER -> stmts
    /\ stmtOn' = IF fanOp \in PrepareOps
                 THEN [stmtOn EXCEPT ![i] = IF e = Nil THEN i ELSE -1]
                 ELSE stmtOn
    /\ seq' = IF fanOp = "TestScatter" /\ e = Nil
              THEN [seq EXCEPT ![i] = seq[i] * seq[i]] ELSE seq

\* A branch whose action failed runs it once more before reporting.
workerRunRetry(i) ==
    /\ \/ worker[i] = "ready"
       \/ worker[i] = "ran" /\ outcome[i] # Nil /\ invoked[i] < 2
    /\ \E e \in Results(i) :
         /\ outcome' = [outcome EXCEPT ![i] = e]
         /\ Effect(i, e)
    /\ invoked' = [invoked EXCEPT ![i] = @ + 1]
    /\ worker' = [worker EXCEPT ![i] = "ran"]
    /\ UNCHANGED <<count, count0, hist, last, stmt, fanOp, fanN, callerPc,
                   loopI, errors, fanRet, left>>

\* A branch that finds another branch's error already there gives up without
\* calling its action.
workerRunShortCircuit(i) ==
    /\ worker[i] = "ready"
    /\ IF \E j \in Branches : outcome[j] \notin {Nil, NoResult}
       THEN /\ outcome' = [outcome EXCEPT ![i] = Nil]
            /\ UNCHANGED <<pdbs, stmts, stmtOn, seq, invoked>>
       ELSE /\ \E e \in Results(i) :
                 /\ outcome' = [outcome EXCEPT ![i] = e]
                 /\ Effect(i, e)
            /\ invoked' = [invoked EXCEPT ![i] = @ + 1]
    /\ worker' = [worker EXCEPT ![i] = "ran"]
    /\ UNCHANGED <<count, count0, hist, last, stmt, fanOp, fanN, callerPc,
                   loopI, errors, fanRet, left>>

\* Branch i's goroutine calls its action.
workerRun(i) ==
    /\ worker[i] = "ready"
    /\ \E e \in Results(i) :
         /\ outcome' = [outcome EXCEPT ![i] = e]
         /\ Effect(i, e)
    /\ invoked' = [invoked EXCEPT ![i] = @ + 1]
    /\ worker' = [worker EXCEPT ![i] = "ran"]
    /\ UNCHANGED <<count, count0, hist, last, stmt, fanOp, fanN, callerPc,
                   loopI, errors, fanRet, left>>

\* errors := make(chan error): without a buffer a send goes through only
\* while the caller is waiting to receive.
workerSendUnbuffered(i) ==
    /\ fanOp \in ChanOps
    /\ worker[i] = "ran"
    /\ errors = <<>>
    /\ callerPc = "recv"
    /\ errors' = Append(errors, outcome[i])
    /\ worker' = [worker EXCEPT ![i] = "done"]
    /\ UNCHANGED <<dbVars, stmtVars, fanOp, fanN, callerPc, loopI, outcome,
                   invoked, fanRet, seq, left>>

\* errors <- result: the send blocks while the channel holds cap(errors)
\* values.
workerSend(i) ==
    /\ fanOp \in ChanOps
    /\ worker[i] = "ran"
    /\ Len(errors) < fanN
    /\ errors' = Append(errors, outcome[i])
    /\ worker' = [worker EXCEPT ![i] = "done"]
    /\ UNCHANGED <<dbVars, stmtVars, fanOp, fanN, callerPc, loopI, outcome,
                   invoked, fanRet, seq, left>>

\* The call returns whatever it receives first, a nil included.
fanRecvFirst ==
    /\ callerPc = "recv"
    /\ \/ /\ loopI < fanN
          /\ errors # <<>>
          /\ errors' = Tail(errors)
          /\ callerPc' = "returned"
          /\ fanRet' = Head(errors)
          /\ stmt' = IF fanOp = "Prepare" /\ Head(errors) = Nil THEN "stmt" ELSE stmt
          /\ UNCHANGED loopI
       \/ /\ loopI = fanN
          /\ callerPc' = "returned"
          /\ fanRet' = Nil
          /\ stmt' = IF fanOp = "Prepare" THEN "stmt" ELSE stmt
          /\ UNCHANGED <<errors, loopI>>
    /\ UNCHANGED <<dbVars, stmts, stmtOn, fanOp, fanN, worker, outcome, invoked, seq, left>>

\* On an error the handles prepared so far are closed before the return.
fanRecvCleanup ==
    /\ callerPc = "recv"
    /\ \/ /\ loopI < fanN
          /\ errors # <<>>
          /\ errors' = Tail(errors)
          /\ IF Head(errors) # Nil
             THEN /\ callerPc' = "returned"
                  /\ fanRet' = Head(errors)
                  /\ stmts' = [i \in DOMAIN stmts |->
                                  IF stmts[i] = "open" THEN "closed" ELSE stmts[i]]
                  /\ UNCHANGED loopI
             ELSE /\ loopI' = loopI + 1
                  /\ UNCHANGED <<callerPc, fanRet, stmts>>
          /\ UNCHANGED stmt
       \/ /\ loopI = fanN
          /\ callerPc' = "returned"
          /\ fanRet' = Nil
          /\ stmt' = IF fanOp = "Prepare" THEN "stmt" ELSE stmt
          /\ UNCHANGED <<errors, loopI, stmts>>
    /\ UNCHANGED <<dbVars, stmtOn, fanOp, fanN, worker, outcome, invoked, seq, left>>

\* The receive loop goes on after an error and the call returns nil.
fanRecvSwallow ==
    /\ callerPc = "recv"
    /\ \/ /\ loopI < fanN
          /\ errors # <<>>
          /\ errors' = Tail(errors)
          /\ loopI' = loopI + 1
          /\ UNCHANGED <<callerPc, fanRet, stmt>>
       \/ /\ loopI = fanN
          /\ callerPc' = "returned"
          /\ fanRet' = Nil
          /\ stmt' = IF fanOp = "Prepare" THEN "stmt" ELSE stmt
          /\ UNCHANGED <<errors, loopI>>
    /\ UNCHANGED <<dbVars, stmts, stmtOn, fanOp, fanN, worker, outcome, invoked, seq, left>>

\* One turn of the receive loop, i < cap(errors): err := <-errors blocks on an
\* empty channel; a non-nil err is returned at once, and after cap(errors)
\* nils the call returns nil (for Prepare: the aggregate statement).
fanRecv ==
    /\ callerPc = "recv"
    /\ \/ /\ loopI < fanN
          /\ errors # <<>>
          /\ errors' = Tail(errors)
          /\ IF Head(errors) # Nil
             THEN /\ callerPc' = "returned"
                  /\ fanRet' = Head(errors)
                  /\ UNCHANGED loopI
             ELSE /\ loopI' = loopI + 1
                  /\ UNCHANGED <<callerPc, fanRet>>
          /\ UNCHANGED stmt
       \/ /\ loopI = fanN
          /\ callerPc' = "returned"
          /\ fanRet' = Nil
          /\ stmt' = IF fanOp = "Prepare" THEN "stmt" ELSE stmt
          /\ UNCHANGED <<errors, loopI>>
    /\ UNCHANGED <<dbVars, stmts, stmtOn, fanOp, fanN, worker, outcome, invoked, seq, left>>

\* A goroutine of a returned call calls its action.  Close closes the db;
\* Prepare stores the handle in its call's slice, which is tracked while it
\* is the latest; the result is kept for the send.
leftRun(k, i) ==
    /\ left[k] # NoCall
    /\ left[k].worker[i] = "ready"
    /\ left' = [left EXCEPT ![k].worker[i] = "ran"]
    /\ pdbs' = IF left[k].op = "Close" THEN [pdbs EXCEPT ![i] = "closed"] ELSE pdbs
    /\ \E e \in ResultsOf(left[k].op, i) :
         IF left[k].op = "Prepare" /\ left[k].cur
         THEN /\ stmts' = [stmts EXCEPT ![i] = IF e = Nil THEN "open" ELSE "nil"]
              /\ stmtOn' = [stmtOn EXCEPT ![i] = IF e = Nil THEN i ELSE -1]
         ELSE UNCHANGED <<stmts, stmtOn>>
    /\ UNCHANGED <<count, count0, hist, last, stmt, fanOp, fanN, callerPc, loopI,
                   errors, worker, outcome, invoked, fanRet, seq>>

\* A goroutine of a returned call sends its result on the channel of its
\* call, which nobody receives from any more, and ends; the send blocks while
\* the channel holds cap(errors) values.  With its last goroutine the call
\* is over.
leftSend(k, i) ==
    /\ left[k] # NoCall
    /\ left[k].worker[i] = "ran"
    /\ left[k].held < left[k].n
    /\ LET w == [left[k].worker EXCEPT ![i] = "done"] IN
         left' = [left EXCEPT ![k] =
                     IF \A j \in DOMAIN w : w[j] = "done" THEN NoCall
                     ELSE [@ EXCEPT !.worker = w, !.held = @ + 1]]
    /\ UNCHANGED <<dbVars, stmtVars, fanOp, fanN, callerPc, loopI, errors, worker,
                   outcome, invoked, fanRet, seq>>

\* scatter: a branch's result is kept for the join.
scatterDeposit(i) ==
    /\ fanOp \in ScatterOps
    /\ worker[i] = "ran"
    /\ worker' = [worker EXCEPT ![i] = "done"]
    /\ UNCHANGED <<dbVars, stmtVars, fanOp, fanN, callerPc, loopI, errors,
                   outcome, invoked, fanRet, seq, left>>

\* scatter: once every branch has finished, nil if all succeeded, otherwise
\* one of the errors observed (which one is not specified).  PrepareContext
\* hands the error on, or the aggregate statement when there is none.
scatterJoin ==
    /\ callerPc = "join"
    /\ \A i \in Branches : worker[i] = "done"
    /\ LET failed == {outcome[i] : i \in Branches} \ {Nil} IN
         /\ fanRet' \in (IF failed = {} THEN {Nil} ELSE failed)
         /\ stmt' = IF fanOp = "PrepareContext" /\ failed = {} THEN "stmt" ELSE stmt
    /\ callerPc' = "returned"
    /\ UNCHANGED <<dbVars, stmts, stmtOn, fanOp, fanN, loopI, errors, worker,
                   outcome, invoked, seq, left>>

\* A DB over N physical dbs, all open; N = 0 is the DB literal &DB{} of
\* TestSlave.
InitFan ==
    /\ \E N \in 0..MaxFan : pdbs = [i \in 0..(N - 1) |-> "open"]
    /\ count = Zero64
    /\ count0 = count
    /\ hist = <<>>
    /\ last = NoOp
    /\ OpenedFrom(Len0(pdbs))
    /\ stmts = [i \in DOMAIN pdbs |-> "nil"]
    /\ stmt = "nil"
    /\ stmtOn = [i \in DOMAIN pdbs |-> -1]
    /\ SelIdle
    /\ FanIdle
    /\ queryRowDB = "nil"

NextFan ==
    \/ (Close /\ UNCHANGED <<selVars, openVars, queryRowDB>>)
    \/ (Ping /\ UNCHANGED <<selVars, openVars, queryRowDB>>)
    \/ (Prepare /\ UNCHANGED <<selVars, openVars, queryRowDB>>)
    \/ (PrepareContext /\ UNCHANGED <<selVars, openVars, queryRowDB>>)
    \/ (PingContext /\ UNCHANGED <<selVars, openVars, queryRowDB>>)
    \/ (StmtClose /\ UNCHANGED <<selVars, openVars, queryRowDB>>)
    \/ (TestScatter /\ UNCHANGED <<selVars, openVars, queryRowDB>>)
    \/ (fanSpawn /\ UNCHANGED <<selVars, openVars, queryRowDB>>)
    \/ (fanSpawned /\ UNCHANGED <<selVars, openVars, queryRowDB>>)
    \/ \E i \in Branches : workerRun(i) /\ UNCHANGED <<selVars, openVars, queryRowDB>>
    \/ \E i \in Branches : workerSend(i) /\ UNCHANGED <<selVars, openVars, queryRowDB>>
    \/ (fanRecv /\ UNCHANGED <<selVars, openVars, queryRowDB>>)
    \/ \E k \in Slots : \E i \in DOMAIN left[k].worker :
          leftRun(k, i) /\ UNCHANGED <<selVars, openVars, queryRowDB>>
    \/ \E k \in Slots : \E i \in DOMAIN left[k].worker :
          leftSend(k, i) /\ UNCHANGED <<selVars, openVars, queryRowDB>>
    \/ \E i \in Branches : scatterDeposit(i) /\ UNCHANGED <<selVars, openVars, queryRowDB>>
    \/ (scatterJoin /\ UNCHANGED <<selVars, openVars, queryRowDB>>)

SpecFan == InitFan /\ [][NextFan]_vars

\* The scheduler runs every goroutine that can run: a started goroutine
\* gets to call its action, and, the action having returned, to send its
\* result once the channel takes it, whether its call is the last one or one
\* that has returned before.  Nothing is assumed about the caller.
FairWorkers ==
    \A i \in 0..(MaxChan - 1) :
        /\ WF_vars(i \in DOMAIN worker /\ workerRun(i)
                      /\ UNCHANGED <<selVars, openVars, queryRowDB>>)
        /\ WF_vars(i \in DOMAIN worker /\ workerSend(i)
                      /\ UNCHANGED <<selVars, openVars, queryRowDB>>)
        /\ \A k \in Slots :
              /\ WF_vars(i \in DOMAIN left[k].worker /\ leftRun(k, i)
                            /\ UNCHANGED <<selVars, openVars, queryRowDB>>)
              /\ WF_vars(i \in DOMAIN left[k].worker /\ leftSend(k, i)
                            /\ UNCHANGED <<selVars, openVars, queryRowDB>>)

\* The channel-based operations of db.go alone, on a DB of up to MaxChan dbs.
InitChan ==
    /\ InitFan
    /\ Len0(pdbs) <= MaxChan

NextChan ==
    \/ (Close /\ UNCHANGED <<selVars, openVars, queryRowDB>>)
    \/ (Ping /\ UNCHANGED <<selVars, openVars, queryRowDB>>)
    \/ (Prepare /\ UNCHANGED <<selVars, openVars, queryRowDB>>)
    \/ (fanSpawn /\ UNCHANGED <<selVars, openVars, queryRowDB>>)
    \/ (fanSpawned /\ UNCHANGED <<selVars, openVars, queryRowDB>>)
    \/ \E i \in Branches : workerRun(i) /\ UNCHANGED <<selVars, openVars, queryRowDB>>
    \/ \E i \in Branches : workerSend(i) /\ UNCHANGED <<selVars, openVars, queryRowDB>>
    \/ (fanRecv /\ UNCHANGED <<selVars, openVars, queryRowDB>>)
    \/ \E k \in Slots : \E i \in DOMAIN left[k].worker :
          leftRun(k, i) /\ UNCHANGED <<selVars, openVars, queryRowDB>>
    \/ \E k \in Slots : \E i \in DOMAIN left[k].worker :
          leftSend(k, i) /\ UNCHANGED <<selVars, openVars, queryRowDB>>

SpecChanFair == InitChan /\ [][NextChan]_vars /\ FairWorkers

(***************************************************************************)
(* Fan-out whose actions may panic.  The goroutines of db.go's Close, Ping *)
(* and Prepare call the action bare, with no deferred recover: a panic     *)
(* unwinds the goroutine and the runtime ends the program.  scatter, as    *)
(* specified, hands the branch's panic to the join as that branch's error. *)
(***************************************************************************)
ErrPanic(i) == [kind |-> "panic", at |-> i]
Crashed == callerPc = "crashed"

\* Branch i's action panics inside a goroutine of db.go: nothing recovers it.
workerPanic(i) ==
    /\ fanOp \in ChanOps
    /\ worker[i] = "ready"
    /\ worker' = [worker EXCEPT ![i] = "panicked"]
    /\ outcome' = [outcome EXCEPT ![i] = ErrPanic(i)]
    /\ invoked' = [invoked EXCEPT ![i] = @ + 1]
    /\ callerPc' = "crashed"
    /\ UNCHANGED <<dbVars, stmtVars, fanOp, fanN, loopI, errors, fanRet, seq, left>>

\* Branch i's action panics under scatter: the branch ends with an error.
scatterRecover(i) ==
    /\ fanOp \in ScatterOps
    /\ worker[i] = "ready"
    /\ worker' = [worker EXCEPT ![i] = "ran"]
    /\ outcome' = [outcome EXCEPT ![i] = ErrPanic(i)]
    /\ invoked' = [invoked EXCEPT ![i] = @ + 1]
    /\ UNCHANGED <<dbVars, stmtVars, fanOp, fanN, callerPc, loopI, errors,
                   fanRet, seq, left>>

\* The action of a goroutine of a returned call panics: the same end.
leftPanic(k, i) ==
    /\ left[k] # NoCall
    /\ left[k].worker[i] = "ready"
    /\ left' = [left EXCEPT ![k].worker[i] = "panicked"]
    /\ callerPc' = "crashed"
    /\ UNCHANGED <<dbVars, stmtVars, fanOp, fanN, loopI, errors, worker, outcome,
                   invoked, fanRet, seq>>

\* After the runtime has ended the program nothing runs any more.
NextPanic ==
    \/ (~Crashed /\ Close /\ UNCHANGED <<selVars, openVars, queryRowDB>>)
    \/ (~Crashed /\ Ping /\ UNCHANGED <<selVars, openVars, queryRowDB>>)
    \/ (~Crashed /\ Prepare /\ UNCHANGED <<selVars, openVars, queryRowDB>>)
    \/ (~Crashed /\ PrepareContext /\ UNCHANGED <<selVars, openVars, queryRowDB>>)
    \/ (~Crashed /\ PingContext /\ UNCHANGED <<selVars, openVars, queryRowDB>>)
    \/ (~Crashed /\ StmtClose /\ UNCHANGED <<selVars, openVars, queryRowDB>>)
    \/ (~Crashed /\ TestScatter /\ UNCHANGED <<selVars, openVars, queryRowDB>>)
    \/ (~Crashed /\ fanSpawn /\ UNCHANGED <<selVars, openVars, queryRowDB>>)
    \/ (~Crashed /\ fanSpawned /\ UNCHANGED <<selVars, openVars, queryRowDB>>)
    \/ \E i \in Branches : ~Crashed /\ workerRun(i) /\ UNCHANGED <<selVars, openVars, queryRowDB>>
    \/ \E i \in Branches : ~Crashed /\ workerPanic(i) /\ UNCHANGED <<selVars, openVars, queryRowDB>>
    \/ \E i \in Branches : ~Crashed /\ scatterRecover(i) /\ UNCHANGED <<selVars, openVars, queryRowDB>>
    \/ \E i \in Branches : ~Crashed /\ workerSend(i) /\ UNCHANGED <<selVars, openVars, queryRowDB>>
    \/ (~Crashed /\ fanRecv /\ UNCHANGED <<selVars, openVars, queryRowDB>>)
    \/ \E i \in Branches : ~Crashed /\ scatterDeposit(i) /\ UNCHANGED <<selVars, openVars, queryRowDB>>
    \/ (~Crashed /\ scatterJoin /\ UNCHANGED <<selVars, openVars, queryRowDB>>)
    \/ \E k \in Slots : \E i \in DOMAIN left[k].worker :
          ~Crashed /\ leftRun(k, i) /\ UNCHANGED <<selVars, openVars, queryRowDB>>
    \/ \E k \in Slots : \E i \in DOMAIN left[k].worker :
          ~Crashed /\ leftPanic(k, i) /\ UNCHANGED <<selVars, openVars, queryRowDB>>
    \/ \E k \in Slots : \E i \in DOMAIN left[k].worker :
          ~Crashed /\ leftSend(k, i) /\ UNCHANGED <<selVars, openVars, queryRowDB>>

SpecPanic == InitFan /\ [][NextPanic]_vars

(***************************************************************************)
(* The life of one DB: Open, then the calls of one goroutine - facade      *)
(* calls, pool setters, fan-out calls and the use of the statements they   *)
(* prepared, in any order - or concurrent selector calls.                  *)
(***************************************************************************)
\* Open's argument: "a;b;..." of up to MaxConns connection strings, or the
\* empty string.
LifeDsns == {JoinNames(k) : k \in 1..MaxConns} \cup {<<>>}

\* Before Open; or a DB that Open returned, of more physical databases than
\* the fan-out operations are followed on, whose counter earlier calls have
\* advanced.
InitLife ==
    \/ /\ dsn \in LifeDsns
       /\ Unopened
       /\ hist = <<>>
       /\ last = NoOp
       /\ stmts = <<>>
       /\ stmt = "nil"
       /\ stmtOn = <<>>
       /\ SelIdle
       /\ FanIdle
       /\ queryRowDB = "nil"
    \/ /\ InitRoute
       /\ count # Zero64
       /\ Len0(pdbs) > MaxFan

\* Open has returned the DB.
Usable == openPc = "opened"
NoCaller == pc = [p \in 1..MaxCallers |-> "idle"]
\* Sequential use: the one goroutine that calls the DB is not inside a call.
\* Goroutines of its earlier fan-out calls may still be running.
Sequential == Usable /\ NoCaller /\ callerPc \in {"idle", "returned"}
\* A facade call of the sequential caller; at most MaxMixed selector calls
\* before the last one on a DB whose fan-out operations are followed.
RouteMode == Sequential /\ (Len0(pdbs) > MaxFan \/ Len(hist) <= MaxMixed)
\* Concurrent selector callers: no facade call and no fan-out call so far.
SelMode == Usable /\ callerPc = "idle" /\ last = NoOp
\* A fan-out call of the sequential caller, on a DB of at most MaxFan dbs.
FanMode == Sequential /\ Len0(pdbs) <= MaxFan /\ Len(hist) <= MaxMixed
\* Use of a statement by the sequential caller.
StmtMode == Sequential /\ (Len0(pdbs) > MaxFan \/ Len(hist) <= MaxMixed)

NextLife ==
    \/ (OpenStart /\ UNCHANGED <<hist, last, stmtVars, selVars, fanVars, queryRowDB>>)
    \/ (OpenStep /\ UNCHANGED <<hist, last, stmtVars, selVars, fanVars, queryRowDB>>)
    \/ (OpenDone /\ UNCHANGED <<hist, last, stmtVars, selVars, fanVars, queryRowDB>>)
    \/ (RouteMode /\ Begin /\ Over
          /\ UNCHANGED <<selVars, stmtVars, openVars, queryRowDB>>)
    \/ (RouteMode /\ Exec /\ Over
          /\ UNCHANGED <<selVars, stmtVars, openVars, queryRowDB>>)
    \/ (RouteMode /\ Driver /\ Over
          /\ UNCHANGED <<selVars, stmtVars, openVars, queryRowDB>>)
    \/ (RouteMode /\ Query /\ Over
          /\ UNCHANGED <<selVars, stmtVars, openVars, queryRowDB>>)
    \/ (RouteMode /\ QueryRow /\ Over
          /\ UNCHANGED <<selVars, stmtVars, openVars, queryRowDB>>)
    \/ (RouteMode /\ BeginTx /\ Over
          /\ UNCHANGED <<selVars, stmtVars, openVars, queryRowDB>>)
    \/ (RouteMode /\ ExecContext /\ Over
          /\ UNCHANGED <<selVars, stmtVars, openVars, queryRowDB>>)
    \/ (RouteMode /\ QueryContext /\ Over
          /\ UNCHANGED <<selVars, stmtVars, openVars, queryRowDB>>)
    \/ (RouteMode /\ QueryRowContext /\ Over
          /\ UNCHANGED <<selVars, stmtVars, openVars, queryRowDB>>)
    \/ (RouteMode /\ Slave /\ Over
          /\ UNCHANGED <<selVars, stmtVars, openVars, queryRowDB>>)
    \/ (RouteMode /\ Master /\ Over
          /\ UNCHANGED <<selVars, stmtVars, openVars, queryRowDB>>)
    \/ (RouteMode /\ SetMaxIdleConns /\ Over
          /\ UNCHANGED <<selVars, stmtVars, openVars, queryRowDB>>)
    \/ (RouteMode /\ SetMaxOpenConns /\ Over
          /\ UNCHANGED <<selVars, stmtVars, openVars, queryRowDB>>)
    \/ (RouteMode /\ SetConnMaxLifetime /\ Over
          /\ UNCHANGED <<selVars, stmtVars, openVars, queryRowDB>>)
    \/ (RouteMode /\ SetQueryRowDB /\ Over /\ UNCHANGED <<selVars, stmtVars, openVars>>)
    \/ (StmtMode /\ StmtExec /\ Over
          /\ UNCHANGED <<selVars, stmtVars, openVars, queryRowDB>>)
    \/ (StmtMode /\ StmtQuery /\ Over
          /\ UNCHANGED <<selVars, stmtVars, openVars, queryRowDB>>)
    \/ (StmtMode /\ StmtQueryRow /\ Over
          /\ UNCHANGED <<selVars, stmtVars, openVars, queryRowDB>>)
    \/ \E p \in Callers :
          SelMode /\ slaveStep(p) /\ UNCHANGED <<fanVars, stmtVars, openVars, queryRowDB>>
    \/ \E p \in Callers :
          slaveReturn(p) /\ UNCHANGED <<fanVars, stmtVars, openVars, queryRowDB>>
    \/ (FanMode /\ Close /\ UNCHANGED <<selVars, openVars, queryRowDB>>)
    \/ (FanMode /\ Ping /\ UNCHANGED <<selVars, openVars, queryRowDB>>)
    \/ (FanMode /\ Prepare /\ UNCHANGED <<selVars, openVars, queryRowDB>>)
    \/ (FanMode /\ PrepareContext /\ UNCHANGED <<selVars, openVars, queryRowDB>>)
    \/ (FanMode /\ PingContext /\ UNCHANGED <<selVars, openVars, queryRowDB>>)
    \/ (FanMode /\ StmtClose /\ UNCHANGED <<selVars, openVars, queryRowDB>>)
    \/ (fanSpawn /\ UNCHANGED <<selVars, openVars, queryRowDB>>)
    \/ (fanSpawned /\ UNCHANGED <<selVars, openVars, queryRowDB>>)
    \/ \E i \in Branches : workerRun(i) /\ UNCHANGED <<selVars, openVars, queryRowDB>>
    \/ \E i \in Branches : workerSend(i) /\ UNCHANGED <<selVars, openVars, queryRowDB>>
    \/ (fanRecv /\ UNCHANGED <<selVars, openVars, queryRowDB>>)
    \/ \E k \in Slots : \E i \in DOMAIN left[k].worker :
          leftRun(k, i) /\ UNCHANGED <<selVars, openVars, queryRowDB>>
    \/ \E k \in Slots : \E i \in DOMAIN left[k].worker :
          leftSend(k, i) /\ UNCHANGED <<selVars, openVars, queryRowDB>>
    \/ \E i \in Branches : scatterDeposit(i) /\ UNCHANGED <<selVars, openVars, queryRowDB>>
    \/ (scatterJoin /\ UNCHANGED <<selVars, openVars, queryRowDB>>)

SpecLife == InitLife /\ [][NextLife]_vars

\* The last operation is a QueryRow made with a function installed by
\* SetQueryRowDB.
Routed == last.op = "QueryRow" /\ queryRowDB = "set"

\* C10: over the whole life of a DB, a read issues exactly one query on
\* exactly one db and a failed read is handed back without a second attempt;
\* a read other than a QueryRow with an installed function issues it on the
\* db at the index one selector call returned, with n > 1 a slave and never
\* the master; a QueryRow with an installed function issues it on the db the
\* function hands back, that is the master, without a selector call, or the
\* db of one selector call.
C10_ReadsToSlaveUnlessRouted ==
    last.op \in ReadOps =>
        /\ last.idx \in DOMAIN pdbs
        /\ last.hits = Issue(last.idx)
        /\ (last.sel = 0 /\ last.idx = 0) =>
              (Len0(pdbs) = 1 \/ Routed)
        /\ \/ Routed /\ last.sel = 0 /\ last.idx = 0
           \/ /\ last.sel = 1
              /\ Len(hist) >= 1
              /\ last.idx = hist[Len(hist)].idx
              /\ Len0(pdbs) > 1 => (last.idx >= 1 /\ last.idx <= Len0(pdbs) - 1)

\* On a DB of the most dbs, after a read that went to a slave, a QueryRow with
\* the installed function has issued its one query on the master.
C10_Witness ==
    /\ Routed
    /\ Len0(pdbs) = MaxFan
    /\ Len(hist) = 1
    /\ hist[1].idx >= 1
    /\ last.sel = 0
    /\ last.idx = 0
    /\ last.hits = Issue(0)

(***************************************************************************)
(* Claims about the fan-out.                                               *)
(***************************************************************************)
Returned == callerPc = "returned"

\* C1: one fan-out call invokes the action of every index in [0, n) exactly
\* once: never twice, every goroutine is started before the caller waits
\* whatever the other branches return, a finished branch has run its action
\* once, and when scatter returns every index has been invoked once, so that
\* TestScatter's slice 1..n ends with its even values squared, its odd values
\* untouched, and an error returned.
C1_ExactlyOnce ==
    /\ \A i \in Branches : invoked[i] <= 1
    /\ \A i \in Branches : worker[i] \in {"ran", "done"} => invoked[i] = 1
    /\ callerPc \in {"recv", "join", "returned"} =>
           \A i \in Branches : worker[i] # "none"
    /\ (Returned /\ fanOp \in ScatterOps) => \A i \in Branches : invoked[i] = 1
    /\ (Returned /\ fanOp = "TestScatter") =>
           /\ seq = [i \in Branches |->
                        IF (i + 1) % 2 = 0 THEN (i + 1) * (i + 1) ELSE i + 1]
           /\ fanN >= 1 => fanRet # Nil

\* TestScatter has returned over the longest slice: odd values failed, even
\* values are squared.
C1_Witness ==
    /\ Returned
    /\ fanOp = "TestScatter"
    /\ fanN = MaxFan
    /\ seq[1] = 4
    /\ outcome[0] = Err(0)
    /\ \A i \in Branches : invoked[i] = 1

\* C2: a fan-out call returns nil exactly when every branch succeeded (so for
\* n = 0), and otherwise returns an error that a failing branch produced,
\* whichever order the branches finish in.
C2_NilIffAllSucceed ==
    Returned =>
        /\ fanRet # NoResult
        /\ fanRet = Nil => \A i \in Branches : worker[i] = "done" /\ outcome[i] = Nil
        /\ fanRet # Nil => \E i \in Branches : worker[i] = "done" /\ outcome[i] = fanRet
        /\ fanN = 0 => fanRet = Nil

\* Two branches of a Ping failed and the call returned the error of the one
\* with the higher index.
C2_Witness ==
    /\ Returned
    /\ fanOp = "Ping"
    /\ fanN >= 2
    /\ outcome[0] = Err(0)
    /\ outcome[1] = Err(1)
    /\ fanRet = Err(1)

\* C3: when a fan-out operation returns, with nil or with an error, every one
\* of its n branches has finished.
C3_JoinBarrier ==
    Returned => \A i \in Branches : worker[i] = "done"

\* C12: Prepare and PrepareContext return the aggregate statement exactly when
\* the prepare succeeded on every one of the k physical dbs, and slot i of the
\* statement then holds the open handle prepared on db i; when a db fails to
\* prepare, the call returns an error and no statement.
C12_PrepareAllOrNothing ==
    /\ (Returned /\ fanOp \in PrepareOps) =>
          /\ stmt = "stmt" <=> fanRet = Nil
          /\ stmt = "stmt" <=> \A i \in Branches : worker[i] = "done" /\ outcome[i] = Nil
          /\ stmt = "stmt" => \A i \in DOMAIN pdbs : stmts[i] = "open"
          /\ (\E i \in Branches : outcome[i] \notin {Nil, NoResult}) =>
                (stmt = "nil" /\ fanRet \notin {Nil, NoResult})
    /\ stmt = "stmt" =>
          /\ DOMAIN stmts = DOMAIN pdbs
          /\ \A i \in DOMAIN stmts : stmtOn[i] = i /\ stmts[i] # "nil"

\* Prepare returned a statement over the most dbs.
C12_Witness ==
    /\ Returned
    /\ fanOp = "Prepare"
    /\ fanN = MaxFan
    /\ stmt = "stmt"
    /\ \A i \in Branches : stmtOn[i] = i /\ stmts[i] = "open"

\* C17: a panic in the action of one branch becomes that branch's error and
\* nothing more: the program goes on, the siblings are not stopped, and once
\* the call has returned it has returned an error.
C17_PanicContained ==
    \A i \in Branches :
        outcome[i] = ErrPanic(i) =>
            /\ ~Crashed
            /\ worker[i] \in {"ran", "done"}
            /\ (Returned /\ Quiet) => fanRet.kind \in {"err", "closed", "panic"}

\* The handle branch i of a Close closes: physical db i, or statement handle i.
Handle(i) == IF fanOp = "Close" THEN pdbs[i] ELSE stmts[i]

\* C13: DB.Close and the statement's Close attempt the close of every
\* physical db / statement handle exactly once, whatever the other closes
\* return: every branch is started before the caller waits, a branch is past
\* its action exactly when it has called close once on its own handle, which
\* is closed from then on, a statement's Close or a nil-returning DB.Close
\* has returned only after all n closes, and a goroutine that a DB.Close left
\* running at its return on an error closes its db all the same.
C13_CloseAttemptsAll ==
    /\ fanOp \in {"Close", "StmtClose"} =>
            /\ \A i \in Branches : invoked[i] <= 1
            /\ \A i \in Branches : worker[i] \in {"ran", "done"} <=> invoked[i] = 1
            /\ \A i \in Branches : invoked[i] = 1 => Handle(i) = "closed"
            /\ callerPc \in {"recv", "join", "returned"} =>
                   \A i \in Branches : worker[i] # "none"
            /\ (Returned /\ (fanOp = "StmtClose" \/ fanRet = Nil)) =>
                   \A i \in Branches : invoked[i] = 1
            /\ Quiet => \A i \in Branches : invoked[i] = 1 /\ Handle(i) = "closed"
    /\ \A k \in Slots : left[k].op = "Close" =>
          \A i \in DOMAIN left[k].worker :
             left[k].worker[i] \in {"ran", "done"} => pdbs[i] = "closed"

\* A DB.Close over the most dbs whose first close failed: the others were
\* closed all the same.
C13_Witness ==
    /\ fanOp = "Close"
    /\ fanN = MaxFan
    /\ Returned
    /\ fanRet = Err(0)
    /\ outcome[0] = Err(0)
    /\ \A i \in Branches : invoked[i] = 1 /\ pdbs[i] = "closed" /\ worker[i] = "done"

\* The logical DB is closed: it has physical dbs and every one is closed.
Closed == Len0(pdbs) >= 1 /\ \A i \in DOMAIN pdbs : pdbs[i] = "closed"

\* C14: a DB.Close that returned nil leaves the DB closed; no step opens a
\* closed physical db again or changes the list; and from the return of such
\* a Close on, every branch of a Ping or PingContext gets the "database is
\* closed" error, which is what the call returns, never nil.
C14_ClosedForGood ==
    /\ []((Returned /\ fanOp = "Close" /\ fanRet = Nil /\ fanN >= 1) => Closed)
    /\ [][/\ DOMAIN pdbs' = DOMAIN pdbs
          /\ \A i \in DOMAIN pdbs : pdbs[i] = "closed" => pdbs'[i] = "closed"]_vars
    /\ []((Returned /\ fanOp = "Close" /\ fanRet = Nil /\ fanN >= 1) =>
            [](fanOp \in PingOps =>
                 /\ \A i \in Branches : outcome[i] \in {NoResult, ErrClosed}
                 /\ Returned => fanRet = ErrClosed))

\* On a DB whose dbs a Close has all closed, a Ping over the most dbs has
\* returned the "closed" error.
C14_Witness ==
    /\ Closed
    /\ fanOp = "Ping"
    /\ fanN = MaxFan
    /\ Returned
    /\ fanRet = ErrClosed
    /\ \A i \in Branches : worker[i] = "done"

(***************************************************************************)
(* Open on its own, over every dataSourceNames string of the bound.        *)
(***************************************************************************)
InitOpen ==
    /\ dsn \in Dsns
    /\ Unopened
    /\ hist = <<>>
    /\ last = NoOp
    /\ stmts = <<>>
    /\ stmt = "nil"
    /\ stmtOn = <<>>
    /\ SelIdle
    /\ FanIdle
    /\ queryRowDB = "nil"

NextOpen ==
    \/ (OpenStart /\ UNCHANGED <<hist, last, stmtVars, selVars, fanVars, queryRowDB>>)
    \/ (OpenStep /\ UNCHANGED <<hist, last, stmtVars, selVars, fanVars, queryRowDB>>)
    \/ (OpenDone /\ UNCHANGED <<hist, last, stmtVars, selVars, fanVars, queryRowDB>>)

SpecOpen == InitOpen /\ [][NextOpen]_vars

\* The number of ";" in a string.
NumSep(s) == Cardinality({j \in 1..Len(s) : s[j] = ";"})
\* The piece of s that follows its m-th ";" (its first piece for m = 0): the
\* characters up to the next ";" or the end.
Piece(s, m) ==
    LET seps == {j \in 1..Len(s) : s[j] = ";"}
        from == IF m = 0 THEN 1
                ELSE 1 + CHOOSE j \in seps :
                             Cardinality({x \in seps : x <= j}) = m
        upto == IF \E j \in seps : j >= from
                THEN (CHOOSE j \in seps :
                          j >= from /\ \A x \in seps : x >= from => j <= x) - 1
                ELSE Len(s)
    IN  SubSeq(s, from, upto)

\* C11: Open over a list of k connection strings (k - 1 separators) returns
\* a DB only if all k physical opens succeeded, and the DB then holds exactly
\* k open dbs, db i opened with the i-th string, the master at 0; when an open
\* fails Open returns no DB and the error of an open that failed.
C11_OpenAllOrNothing ==
    /\ openPc = "opened" =>
          /\ openRet = Nil
          /\ DOMAIN pdbs = 0..NumSep(dsn)
          /\ \A i \in DOMAIN pdbs : pdbs[i] = "open" /\ ident[i] = Piece(dsn, i)
    /\ openPc = "failed" =>
          /\ openRet.kind = "err"
          /\ openRet.at \in DOMAIN pdbs
          /\ pdbs[openRet.at] = "nil"
    /\ openPc = "opening" =>
          \A i \in DOMAIN pdbs : i < openI => pdbs[i] = "open"

\* Open returned a DB of three dbs whose second connection string is empty.
C11_Witness ==
    /\ openPc = "opened"
    /\ Len0(pdbs) = 3
    /\ ident[0] = <<"b">>
    /\ ident[1] = <<>>
    /\ ident[2] = <<"a">>

(***************************************************************************)
(* Claims about the whole life of a DB.                                    *)
(***************************************************************************)
\* The operations that ask the selector.
SelectorOps == ReadOps \cup StmtReadOps \cup {"Slave"}

\* C18: db.count changes only in a step that is one selector call with more
\* than one db - a facade read, the replica accessor, a statement query
\* without force-master marker, or a concurrent caller's add - and then by
\* exactly +1 modulo 2^64; a selector call with one db, Open, the fan-out
\* operations and their goroutines, the master-routed operations, the
\* force-master statement queries and the pool setters leave it as it is.
C18_CounterFrame ==
    [][/\ count' # count =>
             /\ count' = Inc64(count)
             /\ Len0(pdbs) > 1
             /\ Len(hist') = Len(hist) + 1
             /\ hist'[Len(hist')].n > 1
             /\ UNCHANGED <<pdbs, stmtVars, openVars, queryRowDB>>
             /\ UNCHANGED fanVars \/ (fanOp' = "none" /\ callerPc' = "idle")
             /\ \/ /\ last'.op \in SelectorOps
                   /\ last'.sel = 1
                   /\ last'.op \in StmtReadOps => ~LastIsOnlyMaster(last'.given)
                \/ \E p \in Callers : pc[p] = "idle" /\ pc'[p] = "added"
       /\ (Len(hist') = Len(hist) + 1 /\ hist'[Len(hist')].n > 1) =>
             count' = Inc64(count)
       /\ (Len(hist') = Len(hist) + 1 /\ hist'[Len(hist')].n <= 1) =>
             count' = count]_vars

\* Three selector calls on a DB with slaves have taken the counter from
\* 2^64 - 3 over the wrap to 0, and a pool setter has run since.
C18_Witness ==
    /\ Len0(pdbs) = MaxFan + 1
    /\ count0 = <<LimbBase - 3, LimbBase - 1, LimbBase - 1, LimbBase - 1>>
    /\ Len(hist) = 3
    /\ count = Zero64
    /\ last.op = "SetConnMaxLifetime"

\* C19: from the moment Open has returned a DB, the list of physical dbs has
\* one entry per piece of the data source names - at least one, also for the
\* empty string - in the order of the pieces, and stays so through Close and
\* every other operation; a statement has one handle per physical db; and
\* every index the facade, a statement or a fan-out branch uses is an index of
\* the list.
C19_ShapeKept ==
    Usable =>
        /\ Len0(pdbs) >= 1
        /\ DOMAIN pdbs = 0..NumSep(dsn)
        /\ \A i \in DOMAIN pdbs :
              pdbs[i] \in {"open", "closed"} /\ ident[i] = Piece(dsn, i)
        /\ stmt = "stmt" => DOMAIN stmts = DOMAIN pdbs
        /\ \A j \in 1..Len(hist) : hist[j].idx \in DOMAIN pdbs
        /\ last.op # "none" =>
              \A j \in DOMAIN last.hits : last.hits[j] > 0 => j \in DOMAIN pdbs
        /\ last.idx # -1 => last.idx \in DOMAIN pdbs
        /\ last.op \in StmtReadOps \cup {"StmtExec"} => last.idx \in DOMAIN stmts
        /\ \A p \in Callers : pc[p] # "idle" => got[p].ret \in DOMAIN pdbs
        /\ fanOp # "none" => Branches = DOMAIN pdbs

\* Open("") has returned a DB of one db, and a Close has closed it.
C19_Witness ==
    /\ Usable
    /\ dsn = <<>>
    /\ Len0(pdbs) = 1
    /\ ident[0] = <<>>
    /\ fanOp = "Close"
    /\ Returned
    /\ pdbs[0] = "closed"

\* C20: Prepare and PrepareContext never close a handle: while the call runs
\* and after it has returned, a handle whose prepare succeeded is open, also
\* when the call returned another db's error and no statement refers to the
\* handles; and an Open that failed leaves the dbs it had opened open.
C20_NoCleanup ==
    /\ fanOp \in PrepareOps =>
          /\ \A i \in Branches :
                /\ stmts[i] # "closed"
                /\ worker[i] \in {"ran", "done"} =>
                      (stmts[i] = "open" <=> outcome[i] = Nil)
          /\ (Returned /\ fanRet # Nil) => stmt = "nil"
    /\ openPc = "failed" =>
          /\ \A i \in DOMAIN pdbs : i < openI => pdbs[i] = "open"
          /\ \A i \in DOMAIN pdbs : pdbs[i] # "closed"

\* Prepare over three dbs returned the error of the middle one; the handles
\* prepared on the other two are open and no statement holds them.
C20_Witness ==
    /\ fanOp = "Prepare"
    /\ Returned
    /\ Quiet
    /\ fanN = 3
    /\ fanRet = Err(1)
    /\ stmt = "nil"
    /\ stmts[0] = "open"
    /\ stmts[1] = "nil"
    /\ stmts[2] = "open"

(***************************************************************************)
(* Claims about the selector under varying n and about its load balance.   *)
(***************************************************************************)
\* C21 as stated: over serialized calls that may each pass another n, a call
\* with n <= 1 returns 0 and a call with n > 1 returns an index in (0, n) that
\* differs from the index the call just before it returned.
C21_TestSlaveAsserted ==
    \A j \in 1..Len(hist) :
        IF hist[j].n <= 1 THEN hist[j].idx = 0
        ELSE /\ hist[j].idx > 0 /\ hist[j].idx < hist[j].n
             /\ j > 1 => hist[j].idx # hist[j - 1].idx

\* C21 amended: a call with n <= 1 returns 0 and a call with n > 1 an index in
\* (0, n); that index differs from the one of the call just before when that
\* call passed n <= 1, or passed the same n > 2 and the counter did not wrap
\* to 0 in between with n-1 dividing 2^64 - 1.  The property function of
\* TestSlave rejects an input only for an index equal to the one it kept.
C21_DifferForSameN ==
    /\ \A j \in 1..Len(hist) :
          IF hist[j].n <= 1 THEN hist[j].idx = 0
          ELSE /\ hist[j].idx > 0 /\ hist[j].idx < hist[j].n
               /\ (j > 1 /\ hist[j - 1].n <= 1) => hist[j].idx # hist[j - 1].idx
               /\ (/\ j > 1
                   /\ hist[j - 1].n = hist[j].n
                   /\ hist[j].n > 2
                   /\ ~(WrapsAt(j) /\ DividesMax64(hist[j].n - 1)))
                      => hist[j].idx # hist[j - 1].idx
    /\ last.err = "err" =>
          /\ hist[Len(hist)].n > 1
          /\ \E k \in 1..(Len(hist) - 1) :
                /\ hist[k].n > 1
                /\ hist[k].idx = hist[Len(hist)].idx
                /\ \A i \in (k + 1)..(Len(hist) - 1) : hist[i].n <= 1

\* Four accepted inputs: n = 4, then 1, then 4 twice.
C21_Witness ==
    /\ Len(hist) = 4
    /\ last.err = "nil"
    /\ hist[1].n = 4
    /\ hist[2].n = 1
    /\ hist[3].n = 4
    /\ hist[4].n = 4
    /\ hist[3].idx # hist[4].idx

\* Callers whose selector call has returned its index.
Completed == {p \in Callers : pc[p] = "done"}
\* No add so far has wrapped the counter to 0.
NoWrapSoFar == \A j \in 1..Len(hist) : ~WrapsAt(j)
\* How many callers of the set S got index r.
Got(S, r) == Cardinality({p \in S : got[p].ret = r})

\* C22 as stated: with n > 1 dbs and no wrap, once the number of completed
\* selector calls is a multiple m*(n-1), m >= 1, every slave index has been
\* returned exactly m times, however the callers interleave.
C22_BalanceOfCompleted ==
    LET n == Len0(pdbs)
        d == Cardinality(Completed)
    IN  (n > 1 /\ NoWrapSoFar /\ d >= 1 /\ d % (n - 1) = 0) =>
            \A r \in 1..(n - 1) : Got(Completed, r) = d \div (n - 1)

\* C22 amended: the same when no other call is between its add and its return
\* - then the completed calls hold consecutive counter values; and, completed
\* or not, the first m*(n-1) adds computed every slave index exactly m times.
C22_BalanceOfAdds ==
    LET n == Len0(pdbs)
        d == Cardinality(Completed)
    IN  (n > 1 /\ NoWrapSoFar) =>
            /\ (Added = Completed /\ d >= 1 /\ d % (n - 1) = 0) =>
                   \A r \in 1..(n - 1) : Got(Completed, r) = d \div (n - 1)
            /\ \A m \in 1..Len(hist) :
                   m * (n - 1) <= Len(hist) =>
                       \A r \in 1..(n - 1) :
                           Cardinality({j \in 1..(m * (n - 1)) : hist[j].idx = r}) = m
            /\ \A p \in Added : \E j \in 1..Len(hist) :
                   hist[j].c = got[p].seen /\ hist[j].idx = got[p].ret

\* Three callers on a fresh DB of four dbs have all returned, the first of
\* them with the index of the last add: each slave was chosen once.
C22_Witness ==
    /\ Len0(pdbs) = 4
    /\ count0 = Zero64
    /\ Cardinality(Completed) = 3
    /\ got[1].ret = 1
    /\ \A r \in 1..3 : Got(Completed, r) = 1

(***************************************************************************)
(* Claims about the goroutines of the channel-based fan-out.               *)
(***************************************************************************)
\* Results sent so far by the goroutines of the call in progress.
Sent == Cardinality({i \in Branches : worker[i] = "done"})

\* Goroutine i belongs to a call that returned and was followed by another.
LeftBehind(i) == \E k \in Slots : left[k] # NoCall /\ i \in DOMAIN left[k].worker

\* C23: in Close, Ping and Prepare of db.go the channel of capacity n always
\* has room for the result of a goroutine whose action has returned, also
\* after the caller has returned on an earlier error and receives no more,
\* and also when the caller has gone on to its next call; so every started
\* goroutine ends, having sent its result: a goroutine of the caller's last
\* call does so unless the caller leaves it behind first, and a goroutine
\* left behind does so as well.
C23_WorkersFinish ==
    /\ [](fanOp \in ChanOps =>
            /\ Len(errors) <= Sent
            /\ Sent <= fanN
            /\ \A i \in Branches :
                  worker[i] = "ran" => (Len(errors) < fanN /\ ENABLED workerSend(i)))
    /\ [](\A k \in Slots : \A i \in DOMAIN left[k].worker :
            /\ left[k].op \in ChanOps
            /\ left[k].held < left[k].n
            /\ left[k].worker[i] = "ran" => ENABLED leftSend(k, i))
    /\ \A i \in 0..(MaxChan - 1) :
          (fanOp \in ChanOps /\ i \in Branches /\ worker[i] \in {"ready", "ran"}
             /\ ~LeftBehind(i))
              ~> \/ (fanOp \in ChanOps /\ i \in Branches /\ worker[i] = "done"
                       /\ outcome[i] # NoResult)
                 \/ LeftBehind(i)
    /\ \A i \in 0..(MaxChan - 1) : \A k \in Slots :
          (left[k] # NoCall /\ i \in DOMAIN left[k].worker)
              ~> (left[k] = NoCall \/ left[k].worker[i] = "done")

\* A Ping over the most dbs returned the first db's error after one receive;
\* the other goroutines have sent their results all the same, and nobody
\* will receive them.
C23_Witness ==
    /\ fanOp = "Ping"
    /\ fanN = MaxChan
    /\ Returned
    /\ fanRet = Err(0)
    /\ Quiet
    /\ Len(errors) = fanN - 1

====
